---------------------------- MODULE Spec2Model ----------------------------
(***************************************************************************)
(* A model of lib/action.js: the action registry (module.exports.actions), *)
(* the dispatcher runAction, isValidAction and the four built-in actions.  *)
(*                                                                         *)
(* Strings are sequences of one-character strings, so that the regular     *)
(* expressions of the registry are matched character by character, with    *)
(* the leftmost, greedy, backtracking semantics of a JavaScript RegExp.    *)
(* A JavaScript array m (the result of String.prototype.match) is the      *)
(* sequence <<m[0], m[1], ...>>; Group(m, k) reads m[k].                   *)
(***************************************************************************)
EXTENDS Naturals, Sequences, FiniteSets, TLC

(***************************************************************************)
(* Bounds of the model.                                                    *)
(***************************************************************************)
\* number of runAction calls in flight at once (SpecConcurrent interleaves
\* all of them; the other specifications run the first of them)
MaxCalls == 2
\* number of words in a generated selector or value operand
MaxOperandWords == 2

(***************************************************************************)
(* Notation for strings: Chars(w) spells the word w, Words(ws) joins the   *)
(* spelled words with single spaces, Cat concatenates.                     *)
(***************************************************************************)
SP == " "
NL == "\n"

Chars(w) ==
    CASE w = "click"    -> <<"c","l","i","c","k">>
      [] w = "CLICK"    -> <<"C","L","I","C","K">>
      [] w = "element"  -> <<"e","l","e","m","e","n","t">>
      [] w = "set"      -> <<"s","e","t">>
      [] w = "Set"      -> <<"S","e","t">>
      [] w = "field"    -> <<"f","i","e","l","d">>
      [] w = "to"       -> <<"t","o">>
      [] w = "TO"       -> <<"T","O">>
      [] w = "check"    -> <<"c","h","e","c","k">>
      [] w = "Check"    -> <<"C","h","e","c","k">>
      [] w = "uncheck"  -> <<"u","n","c","h","e","c","k">>
      [] w = "UNCHECK"  -> <<"U","N","C","H","E","C","K">>
      [] w = "Uncheck"  -> <<"U","n","c","h","e","c","k">>
      [] w = "wait"     -> <<"w","a","i","t">>
      [] w = "for"      -> <<"f","o","r">>
      [] w = "fragment" -> <<"f","r","a","g","m","e","n","t">>
      [] w = "FRAGMENT" -> <<"F","R","A","G","M","E","N","T">>
      [] w = "hash"     -> <<"h","a","s","h">>
      [] w = "Hash"     -> <<"H","a","s","h">>
      [] w = "path"     -> <<"p","a","t","h">>
      [] w = "PATH"     -> <<"P","A","T","H">>
      [] w = "url"      -> <<"u","r","l">>
      [] w = "URL"      -> <<"U","R","L">>
      [] w = "not"      -> <<"n","o","t">>
      [] w = "NOT"      -> <<"N","O","T">>
      [] w = "be"       -> <<"b","e">>
      [] w = "foo"      -> <<"f","o","o">>
      [] w = "FOO"      -> <<"F","O","O">>
      [] w = "bar"      -> <<"b","a","r">>
      [] w = "baz"      -> <<"b","a","z">>
      [] w = "hello"    -> <<"h","e","l","l","o">>
      [] w = "123"      -> <<"1","2","3">>
      [] w = ".a"       -> <<".","a">>
      [] w = ".b"       -> <<".","b">>
      [] w = "#x"       -> <<"#","x">>
      [] w = "/p"       -> <<"/","p">>
      [] w = "x"        -> <<"x">>
      [] w = "!"        -> <<"!">>
      [] w = ""         -> <<>>

RECURSIVE Cat(_)
Cat(ss) == IF ss = <<>> THEN <<>> ELSE Head(ss) \o Cat(Tail(ss))

RECURSIVE Words(_)
Words(ws) ==
    IF ws = <<>> THEN <<>>
    ELSE IF Len(ws) = 1 THEN Chars(ws[1])
    ELSE Chars(ws[1]) \o <<SP>> \o Words(Tail(ws))

(***************************************************************************)
(* The action strings the host passes.                                     *)
(***************************************************************************)
\* the strings of the unit test, and one for each built-in action
DispatchCommands ==
    {Words(<<"bar", "123">>), Words(<<"baz", "123">>), Words(<<"foo", "123">>),
     Words(<<"hello", "foo">>) \o Chars("!"), Words(<<"hello", "FOO">>),
     Words(<<"click", "foo">>), Words(<<"click", ".a">>),
     Words(<<"Uncheck", ".a">>), Words(<<"set", ".a", "to", "x">>),
     Words(<<"wait", "for", "path", "to", "be", "/p">>)}

\* the strings of overlapping calls: one command for each built-in action,
\* two for set-field-value, and one that no action resolves
ConcurrentCommands ==
    {Words(<<"set", ".a", "to", "#x">>), Words(<<"set", "#x", "to", "/p">>),
     Words(<<"click", ".a">>), Words(<<"check", ".a">>),
     Words(<<"wait", "for", "hash", "to", "be", "#x">>), Words(<<"baz", "123">>)}

OperandWords == {".a", "to", "/p", "#x"}

\* selectors and values of up to n words
RECURSIVE OperandsOf(_)
OperandsOf(n) ==
    IF n = 0 THEN {}
    ELSE {<<w>> : w \in OperandWords}
           \cup {<<w>> \o o : w \in OperandWords, o \in OperandsOf(n - 1)}

Operands == {Words(o) : o \in OperandsOf(MaxOperandWords)}
ShortOperands == {Words(o) : o \in OperandsOf(1)}

ClickCommands ==
    {Cat(<<Chars(k), q, <<SP>>, o>>) :
        k \in {"click", "CLICK"}, q \in {<<>>, <<SP>> \o Chars("element")},
        o \in Operands}

SetCommands ==
    {Cat(<<Chars(k), q, <<SP>>, o, <<SP>>, Chars("to"), <<SP>>, v>>) :
        k \in {"set", "Set"}, q \in {<<>>, <<SP>> \o Chars("field")},
        o \in Operands, v \in ShortOperands}

CheckCommands ==
    {Cat(<<Chars(k), q, <<SP>>, o>>) :
        k \in {"check", "Check", "uncheck", "UNCHECK", "Uncheck"},
        q \in {<<>>, <<SP>> \o Chars("field")}, o \in Operands}

WaitCommands ==
    {Cat(<<Words(<<"wait", "for", k>>), q, <<SP>>, o>>) :
        k \in {"fragment", "FRAGMENT", "hash", "Hash", "path", "PATH", "url", "URL"},
        q \in {<<>>, <<SP>> \o Words(<<"to", "be">>),
               <<SP>> \o Words(<<"to", "not", "be">>),
               <<SP>> \o Words(<<"to", "NOT", "be">>)},
        o \in Operands}

\* strings that are nearly commands
OddCommands ==
    {Chars(""), Chars("click"), Words(<<"click", "">>), Words(<<"click", "", ".a">>),
     Chars("click") \o Chars(".a"), Words(<<"x", "click", ".a">>),
     Words(<<"click", ".a">>) \o <<NL>> \o Chars("x"),
     Words(<<"click", "element">>), Words(<<"set", ".a", "to">>),
     Words(<<"set", ".a", "to", "">>), Words(<<"set", "to", "x">>),
     Words(<<"check", "field">>), Words(<<"uncheck">>),
     Chars("x") \o Words(<<"check", ".a">>),
     Words(<<"wait", "for", "url", "to", "not", "be">>),
     Words(<<"wait", "for", "url", "not", "be", "/p">>),
     Words(<<"wait", "for", "/p">>), Words(<<"wait", "for", "path">>)}

\* commands whose operand holds the words of a command: the keyword of
\* another action, or the word to once more, in either case or at the end
NestedCommands ==
    {Words(<<"set", "check", ".a", "to", "x">>),
     Words(<<"click", "set", ".a", "to", "x">>),
     Words(<<"check", "wait", "for", "url", "/p">>),
     Words(<<"wait", "for", "url", "click", ".a">>),
     Words(<<"set", ".a", "to", "x", "to", "">>),
     Words(<<"set", ".a", "to", "x", "TO", "/p">>),
     Words(<<"set", ".a", "TO", "x", "to", "/p">>),
     Words(<<"set", "field", "to", "x">>),
     Words(<<"set", "field", "field", "to", "x">>)}

ActionCommands ==
    ClickCommands \cup SetCommands \cup CheckCommands \cup WaitCommands
      \cup OddCommands \cup NestedCommands

(***************************************************************************)
(* JavaScript values.                                                      *)
(***************************************************************************)
\* the value undefined, where a string could stand (an unmatched group)
Undefined == <<"undefined">>
\* the value null returned by String.prototype.match when nothing matches
Null == <<>>

UpperCase == <<"A","B","C","D","E","F","G","H","I","J","K","L","M",
               "N","O","P","Q","R","S","T","U","V","W","X","Y","Z">>
LowerCase == <<"a","b","c","d","e","f","g","h","i","j","k","l","m",
               "n","o","p","q","r","s","t","u","v","w","x","y","z">>

\* Canonicalize of the i flag, on the characters the model uses
Canonicalize(c) ==
    IF \E k \in DOMAIN LowerCase : LowerCase[k] = c
    THEN UpperCase[CHOOSE k \in DOMAIN LowerCase : LowerCase[k] = c]
    ELSE c

\* the characters . does not match
LineTerminators == {NL}


(***************************************************************************)
(* Regular expressions.  A RegExp object is a record [source, flags,       *)
(* lastIndex]; Compile gives the syntax tree of a source text.  The nodes  *)
(* are: a literal, a sequence, an alternation, a greedy optional x?, a     *)
(* capturing group, the greedy .+ and the assertions ^ and $.              *)
(***************************************************************************)
Lit(w)    == [t |-> "lit", s |-> w]
SeqOf(xs) == [t |-> "seq", xs |-> xs]
Alt(xs)   == [t |-> "alt", xs |-> xs]
Opt(x)    == [t |-> "opt", x |-> x]
Grp(n, x) == [t |-> "grp", n |-> n, x |-> x]
DotPlus   == [t |-> "dotplus"]
Bol       == [t |-> "bol"]
Eol       == [t |-> "eol"]

RegExp(source, flags) == [source |-> source, flags |-> flags, lastIndex |-> 0]

ClickElementMatch == RegExp("^click( element)? (.+)$", "i")
SetFieldValueMatch == RegExp("^set( field)? (.+) to (.+)$", "i")
\* check-field registered with the pattern of click-element
CheckFieldMatch_ClickPattern == RegExp(ClickElementMatch.source, "i")

CheckFieldMatch == RegExp("^(check|uncheck)( field)? (.+)$", "i")
WaitForUrlMatch ==
    RegExp("^wait for (fragment|hash|path|url)( to (not )?be)? (.+)$", "i")
\* the patterns of the unit test's registries
FooMatch == RegExp("^foo", "")
BarMatch == RegExp("^bar", "")
FooAnywhereMatch == RegExp("foo", "i")

Compile(source) ==
    CASE source = "^click( element)? (.+)$" ->
           [groups |-> 2,
            ast |-> SeqOf(<<Bol, Lit(Chars("click")),
                          Opt(Grp(1, Lit(<<SP>> \o Chars("element")))),
                          Lit(<<SP>>), Grp(2, DotPlus), Eol>>)]
      [] source = "^set( field)? (.+) to (.+)$" ->
           [groups |-> 3,
            ast |-> SeqOf(<<Bol, Lit(Chars("set")),
                          Opt(Grp(1, Lit(<<SP>> \o Chars("field")))),
                          Lit(<<SP>>), Grp(2, DotPlus),
                          Lit(<<SP>> \o Chars("to") \o <<SP>>),
                          Grp(3, DotPlus), Eol>>)]
      [] source = "^(check|uncheck)( field)? (.+)$" ->
           [groups |-> 3,
            ast |-> SeqOf(<<Bol,
                          Grp(1, Alt(<<Lit(Chars("check")), Lit(Chars("uncheck"))>>)),
                          Opt(Grp(2, Lit(<<SP>> \o Chars("field")))),
                          Lit(<<SP>>), Grp(3, DotPlus), Eol>>)]
      [] source = "^wait for (fragment|hash|path|url)( to (not )?be)? (.+)$" ->
           [groups |-> 4,
            ast |-> SeqOf(<<Bol, Lit(Words(<<"wait", "for", "">>)),
                          Grp(1, Alt(<<Lit(Chars("fragment")), Lit(Chars("hash")),
                                       Lit(Chars("path")), Lit(Chars("url"))>>)),
                          Opt(Grp(2, SeqOf(<<Lit(<<SP>> \o Chars("to") \o <<SP>>),
                                           Opt(Grp(3, Lit(Chars("not") \o <<SP>>))),
                                           Lit(Chars("be"))>>))),
                          Lit(<<SP>>), Grp(4, DotPlus), Eol>>)]
      [] source = "^foo" ->
           [groups |-> 0, ast |-> SeqOf(<<Bol, Lit(Chars("foo"))>>)]
      [] source = "^bar" ->
           [groups |-> 0, ast |-> SeqOf(<<Bol, Lit(Chars("bar"))>>)]
      [] source = "foo" ->
           [groups |-> 0, ast |-> Lit(Chars("foo"))]

IgnoreCase(flags) == flags = "i"

\* whether the literal w stands in s at position pos
LitAt(w, s, pos, flags) ==
    /\ pos + Len(w) - 1 <= Len(s)
    /\ \A k \in 1..Len(w) :
          IF IgnoreCase(flags)
          THEN Canonicalize(s[pos + k - 1]) = Canonicalize(w[k])
          ELSE s[pos + k - 1] = w[k]

\* the last position of the longest run of non-line-terminators from pos
RECURSIVE DotRunEnd(_, _)
DotRunEnd(s, pos) ==
    IF pos <= Len(s) /\ s[pos] \notin LineTerminators
    THEN DotRunEnd(s, pos + 1)
    ELSE pos - 1

(***************************************************************************)
(* The backtracking matcher.  A matcher state is [pos, caps]: the next     *)
(* position to read and the captures so far.  MatchNode gives the states   *)
(* in which a node can end, in the order in which the backtracking of a    *)
(* JavaScript engine tries them; the first one that lets the rest of the   *)
(* pattern match is the match.                                             *)
(***************************************************************************)
\* n captures, all undefined
RECURSIVE NoCaptures(_)
NoCaptures(n) == IF n = 0 THEN <<>> ELSE Append(NoCaptures(n - 1), Undefined)

\* the states ends, each with capture n set to what s holds from position from
RECURSIVE Captured(_, _, _, _)
Captured(ends, n, s, from) ==
    IF ends = <<>> THEN <<>>
    ELSE <<[Head(ends) EXCEPT !.caps[n] = SubSeq(s, from, Head(ends).pos - 1)]>>
           \o Captured(Tail(ends), n, s, from)

\* a lazy quantifier, .+?, tries the shortest run first
RECURSIVE DotPlusEnds_Lazy(_, _)
DotPlusEnds_Lazy(st, last) ==
    IF last <= st.pos THEN <<>>
    ELSE DotPlusEnds_Lazy(st, last - 1) \o <<[st EXCEPT !.pos = last]>>

\* the states in which .+ can end having started in st: the longest first
RECURSIVE DotPlusEnds(_, _)
DotPlusEnds(st, last) ==
    IF last <= st.pos THEN <<>>
    ELSE <<[st EXCEPT !.pos = last]>> \o DotPlusEnds(st, last - 1)

RECURSIVE MatchNode(_, _, _, _), MatchSeq(_, _, _, _), MatchAlt(_, _, _, _),
          MatchEach(_, _, _, _)

MatchNode(node, s, flags, st) ==
    CASE node.t = "lit" ->
           IF LitAt(node.s, s, st.pos, flags)
           THEN <<[st EXCEPT !.pos = st.pos + Len(node.s)]>>
           ELSE <<>>
      [] node.t = "seq" -> MatchSeq(node.xs, s, flags, <<st>>)
      [] node.t = "alt" -> MatchAlt(node.xs, s, flags, st)
      [] node.t = "opt" -> MatchNode(node.x, s, flags, st) \o <<st>>
      [] node.t = "grp" ->
           Captured(MatchNode(node.x, s, flags, st), node.n, s, st.pos)
      [] node.t = "dotplus" -> DotPlusEnds(st, DotRunEnd(s, st.pos) + 1)
      [] node.t = "bol" -> IF st.pos = 1 THEN <<st>> ELSE <<>>
      [] node.t = "eol" -> IF st.pos = Len(s) + 1 THEN <<st>> ELSE <<>>

\* every state of sts continued through node, in order
MatchEach(node, s, flags, sts) ==
    IF sts = <<>> THEN <<>>
    ELSE MatchNode(node, s, flags, Head(sts))
           \o MatchEach(node, s, flags, Tail(sts))

MatchSeq(xs, s, flags, sts) ==
    IF xs = <<>> THEN sts
    ELSE MatchSeq(Tail(xs), s, flags, MatchEach(Head(xs), s, flags, sts))

MatchAlt(xs, s, flags, st) ==
    IF xs = <<>> THEN <<>>
    ELSE MatchNode(Head(xs), s, flags, st) \o MatchAlt(Tail(xs), s, flags, st)

\* the states in which the compiled pattern c can end, started at start
MatchCompiled(c, s, flags, start) ==
    MatchNode(c.ast, s, flags, [pos |-> start, caps |-> NoCaptures(c.groups)])

\* the match array of the first of the states ends, or Null if there is none
MatchArray(s, start, ends) ==
    IF ends = <<>> THEN Null
    ELSE <<SubSeq(s, start, ends[1].pos - 1)>> \o ends[1].caps

\* the match array of the pattern anchored at position start, or Null
MatchAt(re, s, start) ==
    MatchArray(s, start, MatchCompiled(Compile(re.source), s, re.flags, start))

\* the match m if there is one, and other if not
OrElse(m, other) == IF m # Null THEN m ELSE other

\* the leftmost match at or after position start, or Null
RECURSIVE MatchFrom(_, _, _)
MatchFrom(re, s, start) ==
    IF start > Len(s) + 1 THEN Null
    ELSE OrElse(MatchAt(re, s, start), MatchFrom(re, s, start + 1))

\* the matches of one pattern on the strings strs, computed once
RECURSIVE ExecRow(_, _)
ExecRow(re, strs) ==
    IF strs = {} THEN <<>>
    ELSE LET s == CHOOSE x \in strs : TRUE
         IN  (s :> MatchFrom(re, s, 1)) @@ ExecRow(re, strs \ {s})

RECURSIVE ExecRows(_, _)
ExecRows(res, strs) ==
    IF res = <<>> THEN <<>>
    ELSE (Head(res).source :> ExecRow(Head(res), strs)) @@ ExecRows(Tail(res), strs)

\* the strings whose matches are computed once
TabledCommands == DispatchCommands \cup ConcurrentCommands

\* the matches of the registries' patterns on those strings
ExecTable ==
    ExecRows(<<ClickElementMatch, SetFieldValueMatch, CheckFieldMatch,
               WaitForUrlMatch, FooMatch, BarMatch, FooAnywhereMatch>>,
             TabledCommands)

\* RegExp.prototype.exec: none of the registry's patterns carries the g or
\* the y flag, so the search starts at the first character
RegExpExec(re, s) ==
    IF s \in TabledCommands THEN ExecTable[re.source][s] ELSE MatchFrom(re, s, 1)

\* a pattern with the g flag would resume at lastIndex and move it
RegExpTest_Global(re, s) ==
    LET m == MatchFrom(re, s, re.lastIndex + 1)
    IN  [result |-> m # Null,
         lastIndex |-> IF m = Null THEN 0 ELSE Len(s)]

\* RegExp.prototype.test: whether the pattern matches, and the lastIndex it
\* leaves (without g or y, the one it found)
RegExpTest(re, s) ==
    [result |-> RegExpExec(re, s) # Null, lastIndex |-> re.lastIndex]

\* a match array that holds the empty string, not undefined, for a group
\* that took no part in the match
StringMatch_EmptyGroups(s, re) ==
    LET m == RegExpExec(re, s)
    IN  IF m = Null THEN Null
        ELSE [k \in DOMAIN m |-> IF m[k] = Undefined THEN <<>> ELSE m[k]]

\* String.prototype.match with a pattern without the g flag
StringMatch(s, re) == RegExpExec(re, s)

\* the element k of a match array (JavaScript counts from 0)
Group(matches, k) == matches[k + 1]

(***************************************************************************)
(* Errors and messages.  An error is [origin, call, message]: origin and   *)
(* call tell which `new Error` (or which failure of the page) made it, so  *)
(* that two errors are the same object only if they are equal.  A message  *)
(* built by a template literal is the tuple of its parts.                  *)
(***************************************************************************)
Error(origin, call, message) ==
    [origin |-> origin, call |-> call, message |-> message]

NoError == Error("none", 0, <<"">>)

\* the message without the quotes around the action string
UnresolvedMessage_Unquoted(actionString) ==
    <<"Failed action: ", actionString, " cannot be resolved">>

UnresolvedMessage(actionString) ==
    <<"Failed action: \"", actionString, "\" cannot be resolved">>

NoElementMessage(selector) ==
    <<"Failed action: no element matching selector \"", selector, "\"">>

RunningMessage(actionString) == <<"Running action: ", actionString>>

CompleteMessage == <<"  \\u2714\\uFE0E action complete">>

\* the error of the unit test's rejecting stub
ActionRunnerError == Error("test", 0, <<"action-runner-error">>)

(***************************************************************************)
(* The registry: module.exports.actions.                                   *)
(***************************************************************************)
Action(name, match, run) == [name |-> name, match |-> match, run |-> run]

ClickElement == Action("click-element", ClickElementMatch, "click-element")
SetFieldValue == Action("set-field-value", SetFieldValueMatch, "set-field-value")
CheckField == Action("check-field", CheckFieldMatch, "check-field")
WaitForUrl == Action("wait-for-url", WaitForUrlMatch, "wait-for-url")

DefaultActions == <<ClickElement, SetFieldValue, CheckField, WaitForUrl>>

\* the registry the unit test installs: two stubs that resolve
TestActions == <<Action("", FooMatch, "stub0"), Action("", BarMatch, "stub1")>>

\* the same with the second stub rejecting
TestActionsRejecting ==
    <<Action("", FooMatch, "stub0"), Action("", BarMatch, "stubRejects")>>

\* registries in which two patterns match one string
OverlapActions ==
    <<Action("", FooAnywhereMatch, "stub0"), Action("", FooMatch, "stub1")>>
OverlapActionsReversed ==
    <<Action("", FooMatch, "stub1"), Action("", FooAnywhereMatch, "stub0")>>
ShadowedClickActions ==
    <<Action("", FooAnywhereMatch, "stubRejects"), ClickElement>>

Registries ==
    {DefaultActions, TestActions, TestActionsRejecting, OverlapActions,
     OverlapActionsReversed, ShadowedClickActions}

\* Array.prototype.find and some call the callback on the actions in order,
\* up to the first for which it returns true: Scan gives the index of that
\* action (0 when there is none) and the registry the tests leave
RECURSIVE Scan(_, _, _), ScanTested(_, _, _, _)
Scan(acts, actionString, k) ==
    IF k > Len(acts) THEN [found |-> 0, actions |-> acts]
    ELSE ScanTested(acts, actionString, k, RegExpTest(acts[k].match, actionString))

\* the registry with the lastIndex the test t left in the pattern of action k
Tested(acts, k, t) == [acts EXCEPT ![k].match.lastIndex = t.lastIndex]

\* the scan once the callback has returned t for action k
ScanTested(acts, actionString, k, t) ==
    IF t.result
    THEN [found |-> k, actions |-> Tested(acts, k, t)]
    ELSE Scan(Tested(acts, k, t), actionString, k + 1)

\* a search that keeps the last action that matches
Find_Last(acts, actionString) ==
    LET hits == {k \in DOMAIN acts : RegExpTest(acts[k].match, actionString).result}
    IN  [found |-> IF hits = {} THEN 0
                   ELSE CHOOSE k \in hits : \A j \in hits : j <= k,
         actions |-> acts]

\* module.exports.actions.find(foundAction => foundAction.match.test(actionString))
Find(acts, actionString) == Scan(acts, actionString, 1)

(***************************************************************************)
(* The state.                                                              *)
(***************************************************************************)
VARIABLES
    actions,     \* module.exports.actions, the registry
    calls,       \* the runAction calls: where each one stands
    trace,       \* what the calls did to their collaborators, in order: the
                 \* calls of options.log.debug, of the actions' run functions
                 \* and of page.click, focus, type, evaluate, waitForFunction
    document,    \* the page's elements: selector -> checked
    location,    \* window.location of the page
    valid        \* the last isValidAction call

vars == <<actions, calls, trace, document, location, valid>>

Calls == 1..MaxCalls

\* the arguments the host passes to call c besides the action string
Browser == "browser"
Page == "page"
Options(c) == [log |-> c]

\* the only selector that finds an element in the page
Elements == {Chars(".a")}

LocationA ==
    [hash |-> Chars("#x"), pathname |-> Chars("/p"),
     href |-> Cat(<<Chars("x"), Chars("/p"), Chars("#x")>>)]
LocationB ==
    [hash |-> Chars(""), pathname |-> Chars("x"),
     href |-> Cat(<<Chars("x"), Chars("x")>>)]
Locations == {LocationA, LocationB}

\* the locals of a run function, before any is assigned
NoHandler ==
    [pc |-> "none", selector |-> Undefined, value |-> Undefined,
     checked |-> FALSE, property |-> "", expectedValue |-> Undefined,
     negated |-> FALSE, error |-> NoError]

\* what the promise of a call that has not resolved holds
Pending == <<"pending">>

\* the local `action` of runAction before find has run
NoAction == Action("", RegExp("", ""), "")

IdleCall ==
    [pc |-> "idle", actionString |-> Undefined, action |-> NoAction,
     matches |-> Null, handler |-> NoHandler, error |-> NoError,
     value |-> Pending]

PageCall(c, method, args) ==
    [kind |-> "page", call |-> c, method |-> method, args |-> args]

\* the empty object literal {}
EmptyObject == <<>>

(***************************************************************************)
(* The run functions, up to their first await.  Each gives the locals it   *)
(* has assigned and the page call it has issued.                           *)
(***************************************************************************)
ClickElementRun(c, page, options, matches) ==
    LET selector == Group(matches, 2)
    IN  [handler |-> [NoHandler EXCEPT !.pc = "click", !.selector = selector],
         issued  |-> <<PageCall(c, "click", <<selector>>)>>]

SetFieldValueRun(c, page, options, matches) ==
    LET selector == Group(matches, 2)
        value    == Group(matches, 3)
    IN  [handler |-> [NoHandler EXCEPT !.pc = "focus", !.selector = selector,
                                       !.value = value],
         issued  |-> <<PageCall(c, "focus", <<selector>>)>>]

CheckFieldRun(c, page, options, matches) ==
    LET checked  == (Group(matches, 1) # Chars("uncheck"))
        selector == Group(matches, 3)
    IN  [handler |-> [NoHandler EXCEPT !.pc = "evaluate", !.selector = selector,
                                       !.checked = checked],
         issued  |-> <<PageCall(c, "evaluate", <<selector, checked>>)>>]

\* the switch on the subject
LocationProperty(subject) ==
    CASE subject = Chars("fragment") -> "hash"
      [] subject = Chars("hash")     -> "hash"
      [] subject = Chars("path")     -> "pathname"
      [] OTHER                       -> "href"

WaitForUrlRun(c, page, options, matches) ==
    LET expectedValue == Group(matches, 4)
        negated       == (Group(matches, 3) # Undefined)
        subject       == Group(matches, 1)
        property      == LocationProperty(subject)
    IN  [handler |-> [NoHandler EXCEPT !.pc = "waitForFunction",
                                       !.property = property,
                                       !.expectedValue = expectedValue,
                                       !.negated = negated],
         issued  |-> <<PageCall(c, "waitForFunction",
                                <<EmptyObject, property, expectedValue, negated>>)>>]

\* a polled function that tests for equality whatever negated is
WaitPredicate_IgnoresNegation(loc, property, expectedValue, negated) ==
    loc[property] = expectedValue

\* the function page.waitForFunction polls in the page
WaitPredicate(loc, property, expectedValue, negated) ==
    IF negated
    THEN loc[property] # expectedValue
    ELSE loc[property] = expectedValue

\* the unit test's stubs: sinon.stub().resolves() and .rejects(error)
StubRun(run) ==
    IF run = "stubRejects"
    THEN [handler |-> [NoHandler EXCEPT !.pc = "rejected", !.error = ActionRunnerError],
          issued  |-> <<>>]
    ELSE [handler |-> [NoHandler EXCEPT !.pc = "resolved"], issued |-> <<>>]

\* action.run(browser, page, options, matches), up to its first await
Invoke(run, c, page, options, matches) ==
    CASE run = "click-element"   -> ClickElementRun(c, page, options, matches)
      [] run = "set-field-value" -> SetFieldValueRun(c, page, options, matches)
      [] run = "check-field"     -> CheckFieldRun(c, page, options, matches)
      [] run = "wait-for-url"    -> WaitForUrlRun(c, page, options, matches)
      [] OTHER                   -> StubRun(run)

RunCall(c, run, browser, page, options, matches) ==
    [kind |-> "run", call |-> c, run |-> run,
     args |-> [browser |-> browser, page |-> page, options |-> options,
               matches |-> matches]]

LogCall(options, message) ==
    [kind |-> "log", log |-> options.log, message |-> message]

\* the calls of one collaborator, in order
Log == SelectSeq(trace, LAMBDA e : e.kind = "log")
RunCalls == SelectSeq(trace, LAMBDA e : e.kind = "run")
PageCalls == SelectSeq(trace, LAMBDA e : e.kind = "page")

(***************************************************************************)
(* runAction(browser, page, options, actionString).                        *)
(***************************************************************************)
\* a dispatcher that logs the completion in a finally block
Settle_AlwaysLogs(c, options, handler) ==
    IF handler.pc = "rejected"
    THEN [pc |-> "rejected", error |-> handler.error, value |-> Pending,
          logged |-> <<LogCall(options, CompleteMessage)>>]
    ELSE [pc |-> "resolved", error |-> NoError, value |-> Undefined,
          logged |-> <<LogCall(options, CompleteMessage)>>]

\* a dispatcher that wraps the error of the run function in its own
Settle_Wrapped(c, options, handler) ==
    IF handler.pc = "rejected"
    THEN [pc |-> "rejected", value |-> Pending, logged |-> <<>>,
          error |-> Error("runAction", c, handler.error.message)]
    ELSE [pc |-> "resolved", error |-> NoError, value |-> Undefined,
          logged |-> <<LogCall(options, CompleteMessage)>>]

\* a dispatcher that logs nothing after the run function
Settle_Silent(c, options, handler) ==
    IF handler.pc = "rejected"
    THEN [pc |-> "rejected", error |-> handler.error, value |-> Pending,
          logged |-> <<>>]
    ELSE [pc |-> "resolved", error |-> NoError, value |-> Undefined,
          logged |-> <<>>]

\* what runAction does after `await action.run(...)`, given how the run
\* function ended: the debug message it logs, and how its promise settles
Settle(c, options, handler) ==
    IF handler.pc = "rejected"
    THEN [pc |-> "rejected", error |-> handler.error, value |-> Pending,
          logged |-> <<>>]
    ELSE [pc |-> "resolved", error |-> NoError, value |-> Undefined,
          logged |-> <<LogCall(options, CompleteMessage)>>]

\* the call continues with a match: the first debug message, the captures
\* and the run function up to its first await
RunFound(c, actionString, action) ==
    \E matches \in {StringMatch(actionString, action.match)} :
    \E inv \in {Invoke(action.run, c, Page, Options(c), matches)} :
       /\ trace' = trace
             \o <<LogCall(Options(c), RunningMessage(actionString)),
                  RunCall(c, action.run, Browser, Page, Options(c), matches)>>
             \o inv.issued
       /\ calls' = [calls EXCEPT ![c] =
             [@ EXCEPT !.pc = "awaiting",
                       !.actionString = actionString,
                       !.action = action,
                       !.matches = matches,
                       !.handler = inv.handler]]

\* the call throws: no action was found
RunUnresolved(c, actionString) ==
    /\ calls' = [calls EXCEPT ![c] =
          [@ EXCEPT !.pc = "rejected",
                    !.actionString = actionString,
                    !.error = Error("runAction", c, UnresolvedMessage(actionString))]]
    /\ UNCHANGED trace

\* a dispatcher that starts no call while another awaits its run function
RunAction_Serialized(c, actionString) ==
    /\ calls[c].pc = "idle"
    /\ \A d \in Calls : calls[d].pc # "awaiting"
    /\ \E scan \in {Find(actions, actionString)} :
          /\ actions' = scan.actions
          /\ IF scan.found = 0
             THEN RunUnresolved(c, actionString)
             ELSE RunFound(c, actionString, scan.actions[scan.found])
    /\ UNCHANGED <<document, location, valid>>

\* the call starts: find, then either the throw or the run of the action
\* (each value is computed once, as in the code)
RunAction(c, actionString) ==
    /\ calls[c].pc = "idle"
    /\ \E scan \in {Find(actions, actionString)} :
          /\ actions' = scan.actions
          /\ IF scan.found = 0
             THEN RunUnresolved(c, actionString)
             ELSE RunFound(c, actionString, scan.actions[scan.found])
    /\ UNCHANGED <<document, location, valid>>

\* a dispatcher that looks its action up again when it resumes
RunActionResumes_Rereads(c) ==
    /\ calls[c].pc = "awaiting"
    /\ calls[c].handler.pc \in {"resolved", "rejected"}
    /\ \E scan \in {Find(actions, calls[c].actionString)} :
       \E s \in {Settle(c, Options(c), calls[c].handler)} :
          /\ trace' = trace \o s.logged
          /\ calls' = [calls EXCEPT ![c] =
                [@ EXCEPT !.pc = s.pc, !.error = s.error, !.value = s.value,
                          !.action = IF scan.found = 0 THEN NoAction
                                     ELSE actions[scan.found]]]
    /\ UNCHANGED <<actions, document, location, valid>>

\* a dispatcher that resumes only when the run function has resolved
RunActionResumes_OnlyResolved(c) ==
    /\ calls[c].pc = "awaiting"
    /\ calls[c].handler.pc = "resolved"
    /\ LET s == Settle(c, Options(c), calls[c].handler)
       IN  /\ trace' = trace \o s.logged
           /\ calls' = [calls EXCEPT ![c] =
                 [@ EXCEPT !.pc = s.pc, !.error = s.error, !.value = s.value]]
    /\ UNCHANGED <<actions, document, location, valid>>

\* the awaited run function has settled: runAction resumes
RunActionResumes(c) ==
    /\ calls[c].pc = "awaiting"
    /\ calls[c].handler.pc \in {"resolved", "rejected"}
    /\ LET s == Settle(c, Options(c), calls[c].handler)
       IN  /\ trace' = trace \o s.logged
           /\ calls' = [calls EXCEPT ![c] =
                 [@ EXCEPT !.pc = s.pc, !.error = s.error, !.value = s.value]]
    /\ UNCHANGED <<actions, document, location, valid>>

(***************************************************************************)
(* The page settles the call a run function awaits, and the run function   *)
(* goes on to its next await or to its end.                                *)
(***************************************************************************)
\* a catch block that throws the error it caught
Caught_Rethrows(run, c, selector, error) == error

\* the catch blocks of click-element, set-field-value and check-field
Caught(run, c, selector, error) ==
    Error(run, c, NoElementMessage(selector))

\* page.click, page.focus or page.type resolves
PageResolves(c) ==
    /\ calls[c].pc = "awaiting"
    /\ calls[c].handler.pc \in {"click", "focus", "type"}
    /\ IF calls[c].handler.pc = "focus"
       THEN /\ trace' = Append(trace,
                               PageCall(c, "type", <<calls[c].handler.value>>))
            /\ calls' = [calls EXCEPT ![c].handler.pc = "type"]
       ELSE /\ calls' = [calls EXCEPT ![c].handler.pc = "resolved"]
            /\ UNCHANGED trace
    /\ UNCHANGED <<actions, document, location, valid>>

\* a page whose failure rejects every run function that awaits it
PageRejects_Shared(c) ==
    /\ calls[c].pc = "awaiting"
    /\ calls[c].handler.pc \in {"click", "focus", "type"}
    /\ calls' = [d \in Calls |->
                   IF calls[d].pc = "awaiting"
                        /\ calls[d].handler.pc \in {"click", "focus", "type"}
                   THEN [calls[d] EXCEPT !.handler =
                           [@ EXCEPT !.pc = "rejected",
                                     !.error = Caught(calls[c].action.run, c,
                                                      calls[c].handler.selector,
                                                      Error("page." \o calls[c].handler.pc,
                                                            c, <<"page error">>))]]
                   ELSE calls[d]]
    /\ UNCHANGED <<actions, trace, document, location, valid>>

\* a set-field-value that goes on to page.type when page.focus has failed
PageRejects_TypesAnyway(c) ==
    /\ calls[c].pc = "awaiting"
    /\ calls[c].handler.pc \in {"click", "focus", "type"}
    /\ LET h == calls[c].handler
           e == Error("page." \o h.pc, c, <<"page error">>)
       IN  /\ calls' = [calls EXCEPT ![c].handler =
                          [h EXCEPT !.pc = "rejected",
                                    !.error = Caught(calls[c].action.run, c,
                                                     h.selector, e)]]
           /\ trace' = IF h.pc = "focus"
                       THEN Append(trace, PageCall(c, "type", <<h.value>>))
                       ELSE trace
    /\ UNCHANGED <<actions, document, location, valid>>

\* a set-field-value whose try block ends before page.type
PageRejects_TypeUncaught(c) ==
    /\ calls[c].pc = "awaiting"
    /\ calls[c].handler.pc \in {"click", "focus", "type"}
    /\ LET h == calls[c].handler
           e == Error("page." \o h.pc, c, <<"page error">>)
       IN  calls' = [calls EXCEPT ![c].handler =
                       [h EXCEPT !.pc = "rejected",
                                 !.error = IF h.pc = "type" THEN e
                                           ELSE Caught(calls[c].action.run, c,
                                                       h.selector, e)]]
    /\ UNCHANGED <<actions, trace, document, location, valid>>

\* page.click, page.focus or page.type rejects
PageRejects(c) ==
    /\ calls[c].pc = "awaiting"
    /\ calls[c].handler.pc \in {"click", "focus", "type"}
    /\ LET h == calls[c].handler
           e == Error("page." \o h.pc, c, <<"page error">>)
       IN  calls' = [calls EXCEPT ![c].handler =
                       [h EXCEPT !.pc = "rejected",
                                 !.error = Caught(calls[c].action.run, c, h.selector, e)]]
    /\ UNCHANGED <<actions, trace, document, location, valid>>

\* the function check-field evaluates in the page
InPageCheck(doc, selector, checked) ==
    IF selector \in DOMAIN doc
    THEN [found |-> TRUE, document |-> [doc EXCEPT ![selector] = checked]]
    ELSE [found |-> FALSE, document |-> doc]

\* page.evaluate runs the function in the page
EvaluateRuns(c) ==
    /\ calls[c].pc = "awaiting"
    /\ calls[c].handler.pc = "evaluate"
    /\ LET h == calls[c].handler
           r == InPageCheck(document, h.selector, h.checked)
           e == Error("in-page", c, <<"No element found">>)
       IN  /\ document' = r.document
           /\ calls' = [calls EXCEPT ![c].handler =
                 IF r.found
                 THEN [h EXCEPT !.pc = "resolved"]
                 ELSE [h EXCEPT !.pc = "rejected",
                                !.error = Caught(calls[c].action.run, c, h.selector, e)]]
    /\ UNCHANGED <<actions, trace, location, valid>>

\* a check-field without its catch block
EvaluateFails_Uncaught(c) ==
    /\ calls[c].pc = "awaiting"
    /\ calls[c].handler.pc = "evaluate"
    /\ calls' = [calls EXCEPT ![c].handler =
                   [@ EXCEPT !.pc = "rejected",
                             !.error = Error("page.evaluate", c, <<"page error">>)]]
    /\ UNCHANGED <<actions, trace, document, location, valid>>

\* page.evaluate itself fails, the function not having run
EvaluateFails(c) ==
    /\ calls[c].pc = "awaiting"
    /\ calls[c].handler.pc = "evaluate"
    /\ LET h == calls[c].handler
           e == Error("page.evaluate", c, <<"page error">>)
       IN  calls' = [calls EXCEPT ![c].handler =
                       [h EXCEPT !.pc = "rejected",
                                 !.error = Caught(calls[c].action.run, c, h.selector, e)]]
    /\ UNCHANGED <<actions, trace, document, location, valid>>

\* page.waitForFunction polls the predicate and finds it true
WaitSatisfied(c) ==
    /\ calls[c].pc = "awaiting"
    /\ calls[c].handler.pc = "waitForFunction"
    /\ LET h == calls[c].handler
       IN  WaitPredicate(location, h.property, h.expectedValue, h.negated)
    /\ calls' = [calls EXCEPT ![c].handler.pc = "resolved"]
    /\ UNCHANGED <<actions, trace, document, location, valid>>

\* a wait-for-url with the catch block of the other actions
WaitFails_Caught(c) ==
    /\ calls[c].pc = "awaiting"
    /\ calls[c].handler.pc = "waitForFunction"
    /\ calls' = [calls EXCEPT ![c].handler =
                   [@ EXCEPT !.pc = "rejected",
                             !.error = Caught(calls[c].action.run, c,
                                              calls[c].handler.expectedValue,
                                              Error("page.waitForFunction", c,
                                                    <<"waiting failed: timeout">>))]]
    /\ UNCHANGED <<actions, trace, document, location, valid>>

\* page.waitForFunction fails (its timeout): wait-for-url has no catch
WaitFails(c) ==
    /\ calls[c].pc = "awaiting"
    /\ calls[c].handler.pc = "waitForFunction"
    /\ calls' = [calls EXCEPT ![c].handler =
                   [@ EXCEPT !.pc = "rejected",
                             !.error = Error("page.waitForFunction", c,
                                             <<"waiting failed: timeout">>)]]
    /\ UNCHANGED <<actions, trace, document, location, valid>>

\* the page moves to another location (what matters only to a call that
\* polls the location: the step is taken while one does)
Navigate(loc) ==
    /\ loc # location
    /\ \E c \in Calls : calls[c].handler.pc = "waitForFunction"
    /\ location' = loc
    /\ UNCHANGED <<actions, calls, trace, document, valid>>

(***************************************************************************)
(* isValidAction(actionString), and the host replacing the registry.       *)
(***************************************************************************)
\* every in the place of some
Some_Every(acts, actionString) ==
    [result |-> \A k \in DOMAIN acts : RegExpTest(acts[k].match, actionString).result,
     actions |-> acts]

\* what some returns, and the registry it leaves, given the scan it has made
SomeFound(scan) == [result |-> scan.found # 0, actions |-> scan.actions]

\* module.exports.actions.some(foundAction => foundAction.match.test(actionString))
Some(acts, actionString) == SomeFound(Scan(acts, actionString, 1))

\* the last isValidAction call: its argument and what it returned (seq
\* alternates, to tell a call from the one before it)
NoValid == [seq |-> 0, actionString |-> Undefined, result |-> FALSE]

IsValidAction(actionString) ==
    /\ \E some \in {Some(actions, actionString)} :
           /\ valid' = [seq |-> 1 - valid.seq, actionString |-> actionString,
                        result |-> some.result]
           /\ actions' = some.actions
    /\ UNCHANGED <<calls, trace, document, location>>

\* runAction.actions = [...]
ReplaceActions(registry) ==
    /\ registry # actions
    /\ actions' = registry
    /\ UNCHANGED <<calls, trace, document, location, valid>>

(***************************************************************************)
(* The specifications.                                                     *)
(***************************************************************************)
Init ==
    /\ actions = DefaultActions
    /\ calls = [c \in Calls |-> IdleCall]
    /\ trace = <<>>
    /\ document \in [Elements -> BOOLEAN]
    /\ location = LocationA
    /\ valid = NoValid

\* the steps of the calls ids, started with strings of commands
CallSteps(ids, commands) ==
    \/ \E c \in ids, s \in commands : RunAction(c, s)
    \/ \E c \in ids : RunActionResumes(c)
    \/ \E c \in ids : PageResolves(c)
    \/ \E c \in ids : PageRejects(c)
    \/ \E c \in ids : EvaluateRuns(c)
    \/ \E c \in ids : EvaluateFails(c)
    \/ \E c \in ids : WaitSatisfied(c)
    \/ \E c \in ids : WaitFails(c)
    \/ \E loc \in Locations : Navigate(loc)

\* the dispatcher: a call of runAction, with isValidAction called and the
\* registry replaced by the host at any point of it
Next ==
    \/ CallSteps({1}, DispatchCommands)
    \/ \E s \in DispatchCommands : IsValidAction(s)
    \/ \E r \in Registries : ReplaceActions(r)

Spec == Init /\ [][Next]_vars

\* the built-in actions: one call of the default registry, over every
\* generated command
NextActions == CallSteps({1}, ActionCommands)

SpecActions == Init /\ [][NextActions]_vars

(***************************************************************************)
(* Vocabulary of the properties.                                           *)
(***************************************************************************)
\* the step in which call c starts
Started(c) == calls[c].pc = "idle" /\ calls'[c].pc # "idle"

\* the step is a call of isValidAction
Validated == valid'.seq # valid.seq

\* the events a step adds to the trace
NewEvents == SubSeq(trace', Len(trace) + 1, Len(trace'))

\* the events of call c, in order
EventsOf(c) ==
    SelectSeq(trace, LAMBDA e : IF e.kind = "log" THEN e.log = c ELSE e.call = c)

\* the actions of a registry whose pattern matches s
Matching(acts, s) == {k \in DOMAIN acts : RegExpExec(acts[k].match, s) # Null}

\* the earliest of them
Earliest(acts, s) ==
    CHOOSE k \in Matching(acts, s) : \A j \in Matching(acts, s) : k <= j

\* no call has invoked more than one run function
OneRunPerCall ==
    \A c \in Calls : Len(SelectSeq(EventsOf(c), LAMBDA e : e.kind = "run")) <= 1

(***************************************************************************)
(* C1: when no pattern of the registry matches the action string, the call *)
(* rejects with an error whose message is exactly                          *)
(*   Failed action: "<actionString>" cannot be resolved                    *)
(* and it has then logged nothing, invoked no run function and made no     *)
(* call of the page.                                                       *)
(***************************************************************************)
C1_UnresolvedStep ==
    \A c \in Calls :
       (Started(c) /\ Matching(actions, calls'[c].actionString) = {}) =>
          /\ calls'[c].pc = "rejected"
          /\ calls'[c].error.message =
                <<"Failed action: \"", calls'[c].actionString, "\" cannot be resolved">>
          /\ trace' = trace

C1_UnresolvedSilent ==
    \A c \in Calls :
       (calls[c].pc = "rejected" /\ calls[c].error.origin = "runAction") =>
          EventsOf(c) = <<>>

C1_Unresolved == [][C1_UnresolvedStep]_vars /\ []C1_UnresolvedSilent

\* a registry other than the default one has rejected "baz 123"
C1_Witness ==
    /\ calls[1].pc = "rejected"
    /\ calls[1].actionString = Words(<<"baz", "123">>)
    /\ calls[1].error.message =
          <<"Failed action: \"", Words(<<"baz", "123">>), "\" cannot be resolved">>
    /\ actions = TestActions
    /\ trace = <<>>

(***************************************************************************)
(* C2: when two or more patterns of the registry match the action string,  *)
(* the call invokes the run function of the earliest of these actions,     *)
(* once, and no other run function.                                        *)
(***************************************************************************)
C2_PriorityStep ==
    \A c \in Calls :
       (Started(c) /\ Cardinality(Matching(actions, calls'[c].actionString)) >= 2) =>
          LET runs == SelectSeq(NewEvents, LAMBDA e : e.kind = "run")
              k    == Earliest(actions, calls'[c].actionString)
          IN  /\ Len(runs) = 1
              /\ runs[1].call = c
              /\ runs[1].run = actions[k].run
              /\ calls'[c].action = actions[k]

C2_Priority == [][C2_PriorityStep]_vars /\ []OneRunPerCall

\* "foo 123" is matched by /foo/i and by /^foo/, registered in this order,
\* and the stub of /foo/i has run
C2_Witness ==
    /\ calls[1].actionString = Words(<<"foo", "123">>)
    /\ calls[1].action = OverlapActions[1]
    /\ calls[1].pc = "resolved"
    /\ Len(RunCalls) = 1
    /\ RunCalls[1].run = "stub0"

(***************************************************************************)
(* C3: when exactly one pattern of the registry matches the action string, *)
(* isValidAction returns true, and the call invokes the run function of    *)
(* that action once, with the browser, the page and the options it was     *)
(* given and with the match array of that pattern on the action string     *)
(* (the groups in order, undefined for a group that did not take part).    *)
(***************************************************************************)
C3_SingleMatchStep ==
    /\ (Validated /\ Cardinality(Matching(actions, valid'.actionString)) = 1) =>
          valid'.result = TRUE
    /\ \A c \in Calls :
          (Started(c) /\ Cardinality(Matching(actions, calls'[c].actionString)) = 1) =>
             LET s    == calls'[c].actionString
                 k    == Earliest(actions, s)
                 runs == SelectSeq(NewEvents, LAMBDA e : e.kind = "run")
             IN  /\ Len(runs) = 1
                 /\ runs[1] =
                       [kind |-> "run", call |-> c, run |-> actions[k].run,
                        args |-> [browser |-> Browser, page |-> Page,
                                  options |-> Options(c),
                                  matches |-> MatchFrom(actions[k].match, s, 1)]]

C3_SingleMatch == [][C3_SingleMatchStep]_vars /\ []OneRunPerCall

\* "set .a to x" was found valid and has run set-field-value with the
\* captures undefined, ".a" and "x"
C3_Witness ==
    /\ valid.actionString = Words(<<"set", ".a", "to", "x">>)
    /\ valid.result = TRUE
    /\ calls[1].actionString = Words(<<"set", ".a", "to", "x">>)
    /\ Len(RunCalls) = 1
    /\ RunCalls[1].run = "set-field-value"
    /\ RunCalls[1].args.matches =
          <<Words(<<"set", ".a", "to", "x">>), Undefined, Chars(".a"), Chars("x")>>

(***************************************************************************)
(* C4: when the run function of the matched action rejects, the call       *)
(* rejects with the very error the run function rejected with: the         *)
(* dispatcher neither wraps, replaces nor suppresses it.                   *)
(***************************************************************************)
C4_Propagates ==
    \A c \in Calls :
       (calls[c].handler.pc = "rejected" /\ calls[c].pc # "awaiting") =>
          /\ calls[c].pc = "rejected"
          /\ calls[c].error = calls[c].handler.error

\* the call has rejected with the error of the rejecting stub
C4_Witness ==
    /\ calls[1].pc = "rejected"
    /\ calls[1].action.run = "stubRejects"
    /\ calls[1].error = ActionRunnerError

(***************************************************************************)
(* C5: a call that resolves has called log.debug exactly twice: first      *)
(* with "Running action: <actionString>", before the run function was      *)
(* invoked, and then with the completion marker, which is logged only      *)
(* once the run function has resolved and is the last thing the call does; *)
(* the call resolves with undefined.                                       *)
(***************************************************************************)
C5_TwoMessages ==
    \A c \in Calls :
       LET ev      == EventsOf(c)
           logs    == SelectSeq(ev, LAMBDA e : e.kind = "log")
           running == [kind |-> "log", log |-> c,
                       message |-> <<"Running action: ", calls[c].actionString>>]
           done    == [kind |-> "log", log |-> c,
                       message |-> <<"  \\u2714\\uFE0E action complete">>]
       IN  /\ ev # <<>> => ev[1] = running
           /\ (\E k \in DOMAIN logs : logs[k] = done) =>
                 calls[c].handler.pc = "resolved"
           /\ calls[c].pc = "resolved" =>
                 /\ logs = <<running, done>>
                 /\ Len(ev) >= 3
                 /\ ev[2].kind = "run"
                 /\ ev[Len(ev)] = done
                 /\ calls[c].value = Undefined

\* set-field-value has resolved: two messages around the run function and
\* its two calls of the page
C5_Witness ==
    /\ calls[1].pc = "resolved"
    /\ calls[1].action.run = "set-field-value"
    /\ Len(EventsOf(1)) = 5
    /\ Len(Log) = 2

(***************************************************************************)
(* C6: isValidAction returns true if and only if some pattern of the       *)
(* registry matches the action string; so it returns false exactly for     *)
(* the strings with which runAction rejects as unresolved.                 *)
(***************************************************************************)
C6_ValidIffMatchStep ==
    /\ Validated =>
          (valid'.result <=> Matching(actions, valid'.actionString) # {})
    /\ \A c \in Calls :
          Started(c) =>
             ((calls'[c].pc = "rejected" /\ calls'[c].error.origin = "runAction")
                <=> ~Some(actions, calls'[c].actionString).result)

C6_ValidIffMatch == [][C6_ValidIffMatchStep]_vars

\* "hello FOO" was found valid by the registry whose /foo/i matches it, and
\* the call with it has started
C6_Witness ==
    /\ valid.actionString = Words(<<"hello", "FOO">>)
    /\ valid.result = TRUE
    /\ actions = OverlapActions
    /\ calls[1].actionString = Words(<<"hello", "FOO">>)
    /\ calls[1].pc = "awaiting"

\* "hello FOO" was found invalid by the default registry, and the call with
\* it has rejected as unresolved
C6_WitnessInvalid ==
    /\ valid.actionString = Words(<<"hello", "FOO">>)
    /\ valid.result = FALSE
    /\ actions = DefaultActions
    /\ calls[1].actionString = Words(<<"hello", "FOO">>)
    /\ calls[1].error.origin = "runAction"

(***************************************************************************)
(* C7: a call of isValidAction, whatever runAction calls it is interleaved *)
(* with, leaves the registry as it was (its actions, their order, the      *)
(* lastIndex of their patterns), invokes no run function, logs nothing,    *)
(* touches neither the calls nor the page, and a second call with the same *)
(* string gives the same result.                                           *)
(***************************************************************************)
C7_PureStep ==
    Validated =>
       /\ actions' = actions
       /\ trace' = trace
       /\ calls' = calls
       /\ document' = document
       /\ location' = location
       /\ Some(actions', valid'.actionString).result = valid'.result

C7_Pure == [][C7_PureStep]_vars

\* isValidAction was called twice while the call was awaiting its run
\* function
C7_Witness ==
    /\ valid.seq = 0
    /\ valid.actionString = Words(<<"click", "foo">>)
    /\ valid.result = TRUE
    /\ calls[1].pc = "awaiting"
    /\ calls[1].handler.pc = "click"

(***************************************************************************)
(* Vocabulary of the command grammar, read off the command string itself.  *)
(***************************************************************************)
\* s without its first n characters
After(s, n) == SubSeq(s, n + 1, Len(s))

\* the operand that ends a command, rest being what follows the keyword:
\* it follows the first of the qualifiers that stands there with a space
\* and something after it, and the single space if none does
RECURSIVE TrailingOperand(_, _)
TrailingOperand(rest, qualifiers) ==
    IF qualifiers = <<>> THEN After(rest, 1)
    ELSE LET q == Head(qualifiers) \o <<SP>>
         IN  IF LitAt(q, rest, 1, "i") /\ Len(rest) > Len(q)
             THEN After(rest, Len(q))
             ELSE TrailingOperand(rest, Tail(qualifiers))

\* the keyword of a check/uncheck command, whatever its case
CheckKeyword(s) ==
    IF LitAt(Chars("uncheck"), s, 1, "i") THEN "uncheck" ELSE "check"

\* the subject keyword of a wait command, whatever its case
WaitSubject(s) ==
    CHOOSE k \in {"fragment", "hash", "path", "url"} :
        LitAt(Chars(k), s, Len(Words(<<"wait", "for", "">>)) + 1, "i")

ToBe == <<SP>> \o Words(<<"to", "be">>)
ToNotBe == <<SP>> \o Words(<<"to", "not", "be">>)

\* the page calls of call c with the given method
PageCallsOf(c, method) ==
    SelectSeq(EventsOf(c), LAMBDA e : e.kind = "page" /\ e.method = method)

(***************************************************************************)
(* C8: for every command the check/uncheck pattern accepts (in whatever    *)
(* case), the function is evaluated in the page exactly once, with the     *)
(* trailing selector, and with checked true when the keyword is check and  *)
(* false when the keyword is uncheck.                                      *)
(* The run function compares the captured keyword with 'uncheck' exactly,  *)
(* so this does not hold of a keyword written in another case.             *)
(***************************************************************************)
C8_CheckedFollowsKeyword ==
    \A c \in Calls :
       calls[c].action.run = "check-field" =>
          LET s    == calls[c].actionString
              kw   == CheckKeyword(s)
              rest == After(s, Len(Chars(kw)))
              ev   == PageCallsOf(c, "evaluate")
          IN  /\ Len(ev) = 1
              /\ ev[1].args =
                    <<TrailingOperand(rest, <<<<SP>> \o Chars("field")>>),
                      kw = "check">>

(***************************************************************************)
(* C9: for every command the wait-for-url pattern accepts (in whatever     *)
(* case), the location property passed to page.waitForFunction follows the *)
(* subject keyword: fragment and hash give hash, path gives pathname, url  *)
(* gives href.                                                             *)
(* The run function switches on the captured subject exactly, so this does *)
(* not hold of a subject written in another case.                          *)
(***************************************************************************)
C9_PropertyFollowsSubject ==
    \A c \in Calls :
       calls[c].action.run = "wait-for-url" =>
          LET subject == WaitSubject(calls[c].actionString)
              ev      == PageCallsOf(c, "waitForFunction")
          IN  /\ Len(ev) = 1
              /\ ev[1].args[2] =
                    CASE subject \in {"fragment", "hash"} -> "hash"
                      [] subject = "path"                 -> "pathname"
                      [] subject = "url"                  -> "href"

(***************************************************************************)
(* C10: in wait-for-url, negated is true if and only if the command has    *)
(* the "to not be" form, the expected value is the remainder of the        *)
(* string, and the polled function gives                                   *)
(* (location[property] = expected) # negated for every location, and so    *)
(* the wait is satisfied only at a location of which that is true.         *)
(***************************************************************************)
C10_NegationInv ==
    \A c \in Calls :
       calls[c].action.run = "wait-for-url" =>
          LET s    == calls[c].actionString
              rest == After(s, Len(Words(<<"wait", "for", WaitSubject(s)>>)))
              ev   == PageCallsOf(c, "waitForFunction")
          IN  /\ Len(ev) = 1
              /\ ev[1].args[4] =
                    (LitAt(ToNotBe \o <<SP>>, rest, 1, "i")
                       /\ Len(rest) > Len(ToNotBe) + 1)
              /\ ev[1].args[3] = TrailingOperand(rest, <<ToNotBe, ToBe>>)
              /\ \A loc \in Locations, n \in BOOLEAN :
                    WaitPredicate(loc, ev[1].args[2], ev[1].args[3], n)
                       <=> ((loc[ev[1].args[2]] = ev[1].args[3]) # n)

C10_SatisfiedStep ==
    \A c \in Calls :
       (calls[c].handler.pc = "waitForFunction" /\ calls'[c].handler.pc = "resolved") =>
          LET h == calls[c].handler
          IN  (location[h.property] = h.expectedValue) # h.negated

C10_Negation == []C10_NegationInv /\ [][C10_SatisfiedStep]_vars

\* "wait for hash to NOT be #x" was satisfied once the page had left the
\* location whose hash is #x
C10_Witness ==
    /\ calls[1].actionString = Words(<<"wait", "for", "hash", "to", "NOT", "be", "#x">>)
    /\ calls[1].handler.pc = "resolved"
    /\ calls[1].handler.negated = TRUE
    /\ calls[1].handler.property = "hash"
    /\ calls[1].handler.expectedValue = Chars("#x")
    /\ location = LocationB

\* the page calls of call c, whatever the method
AllPageCallsOf(c) == SelectSeq(EventsOf(c), LAMBDA e : e.kind = "page")

\* the message of the catch blocks, for the selector
FailedSelector(selector) ==
    <<"Failed action: no element matching selector \"", selector, "\"">>

(***************************************************************************)
(* C11: click-element calls page.click exactly once, with the selector:    *)
(* all that follows "click " or "click element " in the command, spaces    *)
(* included.  When page.click fails, the run function rejects with a new   *)
(* error whose message is                                                  *)
(* 'Failed action: no element matching selector "<selector>"', and that is *)
(* the error runAction rejects with.                                       *)
(***************************************************************************)
C11_ClickInv ==
    \A c \in Calls :
       calls[c].action.run = "click-element" =>
          LET s        == calls[c].actionString
              selector == TrailingOperand(After(s, Len(Chars("click"))),
                                          <<<<SP>> \o Chars("element")>>)
              h        == calls[c].handler
          IN  /\ AllPageCallsOf(c) = <<PageCall(c, "click", <<selector>>)>>
              /\ h.pc = "rejected" =>
                    /\ h.error.message = FailedSelector(selector)
                    /\ h.error.origin = "click-element"
              /\ calls[c].pc = "rejected" =>
                    /\ h.pc = "rejected"
                    /\ calls[c].error = h.error

\* page.click failing is what makes the run function reject
C11_ClickStep ==
    \A c \in Calls :
       (calls[c].handler.pc = "click" /\ calls'[c].handler.pc = "rejected") =>
          /\ calls'[c].handler.error # Error("page.click", c, <<"page error">>)
          /\ trace' = trace

C11_Click == []C11_ClickInv /\ [][C11_ClickStep]_vars

\* "click element .a /p" has rejected with the message that names ".a /p"
C11_Witness ==
    /\ calls[1].actionString = Words(<<"click", "element", ".a", "/p">>)
    /\ calls[1].pc = "rejected"
    /\ calls[1].error.message = FailedSelector(Words(<<".a", "/p">>))
    /\ Len(PageCalls) = 1

(***************************************************************************)
(* Vocabulary of the set command: the selector and the value, read off the *)
(* command string.                                                         *)
(***************************************************************************)
ToWord == <<SP>> \o Chars("to") \o <<SP>>

\* the positions of body at which " to " stands with something on each side
SplitsOf(body) ==
    {p \in 2..Len(body) : LitAt(ToWord, body, p, "i") /\ p + Len(ToWord) <= Len(body)}

\* what follows "set " or "set field " in the command s: the qualifier is
\* taken when what follows it can still be split
SetBody(s) ==
    IF LitAt(<<SP>> \o Chars("field") \o <<SP>>, s, Len(Chars("set")) + 1, "i")
         /\ SplitsOf(After(s, Len(Words(<<"set", "field", "">>)))) # {}
    THEN After(s, Len(Words(<<"set", "field", "">>)))
    ELSE After(s, Len(Words(<<"set", "">>)))

LastSplit(body) == CHOOSE p \in SplitsOf(body) : \A q \in SplitsOf(body) : q <= p

SetSelector(s) == SubSeq(SetBody(s), 1, LastSplit(SetBody(s)) - 1)
SetValue(s) == After(SetBody(s), LastSplit(SetBody(s)) + Len(ToWord) - 1)

(***************************************************************************)
(* C12: in set-field-value, page.focus failing and page.type failing have  *)
(* the same outcome: the run function rejects with a new error whose       *)
(* message is 'Failed action: no element matching selector "<selector>"',  *)
(* naming the selector of the command and never its value; the error of    *)
(* the page is discarded.                                                  *)
(***************************************************************************)
C12_SetFailsInv ==
    \A c \in Calls :
       (calls[c].action.run = "set-field-value" /\ calls[c].handler.pc = "rejected") =>
          LET selector == SetSelector(calls[c].actionString)
          IN  /\ calls[c].handler.error =
                    Error("set-field-value", c, FailedSelector(selector))
              /\ calls[c].pc = "rejected" => calls[c].error = calls[c].handler.error

\* either sub-step failing gives that error, and not the error of the page
C12_SetFailsStep ==
    \A c \in Calls :
       (calls[c].handler.pc \in {"focus", "type"} /\ calls'[c].handler.pc = "rejected") =>
          /\ calls'[c].handler.error =
                Error("set-field-value", c,
                      FailedSelector(SetSelector(calls[c].actionString)))
          /\ calls'[c].handler.error.origin \notin {"page.focus", "page.type"}

C12_SetFails == []C12_SetFailsInv /\ [][C12_SetFailsStep]_vars

\* "set field .a to /p" has rejected once page.type had failed, with the
\* message that names ".a"
C12_Witness ==
    /\ calls[1].actionString = Words(<<"set", "field", ".a", "to", "/p">>)
    /\ calls[1].pc = "rejected"
    /\ Len(PageCalls) = 2
    /\ PageCalls[2].method = "type"
    /\ calls[1].error.message = FailedSelector(Chars(".a"))
    /\ calls[1].handler.value = Chars("/p")

\* the selector of a check or uncheck command, read off the command string
CheckSelector(s) ==
    TrailingOperand(After(s, Len(Chars(CheckKeyword(s)))),
                    <<<<SP>> \o Chars("field")>>)

(***************************************************************************)
(* C13: in check-field every failure, the function evaluated in the page   *)
(* finding no element for the selector or page.evaluate itself failing, is *)
(* replaced by a new error whose message is                                *)
(* 'Failed action: no element matching selector "<selector>"'; when the    *)
(* run function fails, no element has had its checked state set.           *)
(***************************************************************************)
C13_CheckFailsInv ==
    \A c \in Calls :
       (calls[c].action.run = "check-field" /\ calls[c].handler.pc = "rejected") =>
          /\ calls[c].handler.error =
                Error("check-field", c,
                      FailedSelector(CheckSelector(calls[c].actionString)))
          /\ calls[c].pc = "rejected" => calls[c].error = calls[c].handler.error

\* the checked state of an element is set only by an evaluation that finds
\* the element of the selector, and then the run function resolves
C13_CheckFailsStep ==
    /\ \A c \in Calls :
          calls[c].handler.pc = "evaluate" =>
             /\ calls'[c].handler.pc = "rejected" => document' = document
             /\ calls'[c].handler.pc = "resolved" =>
                   /\ CheckSelector(calls[c].actionString) \in DOMAIN document
                   /\ document' = [document EXCEPT
                                     ![CheckSelector(calls[c].actionString)] =
                                        calls[c].handler.checked]
    /\ document' # document =>
          \E c \in Calls : /\ calls[c].handler.pc = "evaluate"
                           /\ calls'[c].handler.pc = "resolved"

C13_CheckFails == []C13_CheckFailsInv /\ [][C13_CheckFailsStep]_vars

\* "uncheck field #x" has rejected, no element matching #x, with the message
\* that names "#x"
C13_Witness ==
    /\ calls[1].actionString = Words(<<"uncheck", "field", "#x">>)
    /\ calls[1].pc = "rejected"
    /\ calls[1].error.message = FailedSelector(Chars("#x"))
    /\ Len(PageCalls) = 1
    /\ PageCalls[1].method = "evaluate"

\* the error with which page.waitForFunction fails in call c
WaitError(c) == [origin |-> "page.waitForFunction", call |-> c,
                 message |-> <<"waiting failed: timeout">>]

(***************************************************************************)
(* C14: wait-for-url translates no error: when page.waitForFunction fails, *)
(* the run function rejects with that very error and so does runAction;    *)
(* page.waitForFunction is called exactly once, with the empty object as   *)
(* its options.                                                            *)
(***************************************************************************)
C14_WaitInv ==
    \A c \in Calls :
       calls[c].action.run = "wait-for-url" =>
          /\ Len(AllPageCallsOf(c)) = 1
          /\ AllPageCallsOf(c)[1].method = "waitForFunction"
          /\ Len(AllPageCallsOf(c)[1].args) = 4
          /\ AllPageCallsOf(c)[1].args[1] = <<>>
          /\ calls[c].handler.pc = "rejected" => calls[c].handler.error = WaitError(c)
          /\ calls[c].pc = "rejected" => calls[c].error = WaitError(c)

C14_WaitStep ==
    \A c \in Calls :
       (calls[c].handler.pc = "waitForFunction" /\ calls'[c].handler.pc = "rejected") =>
          /\ calls'[c].handler.error = WaitError(c)
          /\ trace' = trace

C14_Wait == []C14_WaitInv /\ [][C14_WaitStep]_vars

\* "wait for url to be /p" has rejected with the error of the page
C14_Witness ==
    /\ calls[1].actionString = Words(<<"wait", "for", "url", "to", "be", "/p">>)
    /\ calls[1].pc = "rejected"
    /\ calls[1].error = WaitError(1)
    /\ Len(PageCalls) = 1

(***************************************************************************)
(* C15: in set-field-value, page.focus is called with the selector and     *)
(* then, only once it has resolved, page.type with the value; when         *)
(* page.focus fails page.type is never called; each is called at most once *)
(* in a call of runAction.                                                 *)
(***************************************************************************)
C15_FocusThenTypeInv ==
    \A c \in Calls :
       calls[c].action.run = "set-field-value" =>
          LET s == calls[c].actionString
              p == AllPageCallsOf(c)
              f == PageCall(c, "focus", <<SetSelector(s)>>)
              t == PageCall(c, "type", <<SetValue(s)>>)
          IN  /\ p = <<f>> \/ p = <<f, t>>
              /\ calls[c].handler.pc = "focus" => p = <<f>>
              /\ calls[c].handler.pc \in {"type", "resolved"} => p = <<f, t>>

\* page.type is called in the step in which page.focus resolves, and in no
\* other; the step in which page.focus fails calls nothing
C15_FocusThenTypeStep ==
    \A c \in Calls :
       /\ (\E k \in DOMAIN NewEvents :
              /\ NewEvents[k].kind = "page"
              /\ NewEvents[k].call = c
              /\ NewEvents[k].method = "type") =>
             /\ calls[c].handler.pc = "focus"
             /\ calls'[c].handler.pc = "type"
             /\ Len(NewEvents) = 1
       /\ (calls[c].handler.pc = "focus" /\ calls'[c].handler.pc = "rejected") =>
             trace' = trace
       /\ (calls[c].action.run = "set-field-value"
             /\ calls[c].handler.pc = "rejected") =>
             AllPageCallsOf(c)' = AllPageCallsOf(c)

C15_FocusThenType == []C15_FocusThenTypeInv /\ [][C15_FocusThenTypeStep]_vars

\* "set .a to #x" has rejected, page.focus having failed: page.type was not
\* called
C15_Witness ==
    /\ calls[1].actionString = Words(<<"set", ".a", "to", "#x">>)
    /\ calls[1].pc = "rejected"
    /\ Len(PageCalls) = 1
    /\ PageCalls[1] = PageCall(1, "focus", <<Chars(".a")>>)

\* the debug messages of call c, in order
LogsOf(c) == SelectSeq(EventsOf(c), LAMBDA e : e.kind = "log")

(***************************************************************************)
(* C16: when the run function of the matched action fails, the completion  *)
(* marker is never logged: the call has logged exactly one debug message,  *)
(* the "Running action: ..." line, and once the run function has failed    *)
(* the call neither logs nor calls the page.                               *)
(***************************************************************************)
C16_FailedInv ==
    \A c \in Calls :
       calls[c].handler.pc = "rejected" =>
          /\ LogsOf(c) = <<[kind |-> "log", log |-> c,
                            message |-> <<"Running action: ", calls[c].actionString>>]>>
          /\ calls[c].pc \in {"awaiting", "rejected"}

C16_FailedStep ==
    \A c \in Calls :
       calls[c].handler.pc = "rejected" =>
          /\ EventsOf(c)' = EventsOf(c)
          /\ calls'[c].handler = calls[c].handler

C16_Failed == []C16_FailedInv /\ [][C16_FailedStep]_vars

\* the call of "click foo" has rejected after page.click failed, with one
\* debug message
C16_Witness ==
    /\ calls[1].actionString = Words(<<"click", "foo">>)
    /\ calls[1].action.run = "click-element"
    /\ calls[1].pc = "rejected"
    /\ Len(Log) = 1
    /\ Len(PageCalls) = 1

(***************************************************************************)
(* The built-in actions with a page that settles every call made of it,    *)
(* and an event loop that resumes a call whose awaited promise has         *)
(* settled.                                                                *)
(***************************************************************************)
\* every call of the page is settled in the end
PageSettles(c) ==
    /\ WF_vars(PageResolves(c) \/ PageRejects(c))
    /\ WF_vars(EvaluateRuns(c) \/ EvaluateFails(c))
    /\ WF_vars(WaitSatisfied(c) \/ WaitFails(c))

\* the continuation of an await runs once the awaited promise has settled
LoopResumes(c) == WF_vars(RunActionResumes(c))

NextLive == CallSteps({1}, ActionCommands)

SpecLive ==
    /\ Init
    /\ [][NextLive]_vars
    /\ \A c \in Calls : PageSettles(c) /\ LoopResumes(c)

\* the call has resolved or rejected
Settled(c) == calls[c].pc \in {"resolved", "rejected"}

\* a page call of the run function of call c is pending
PagePending(c) ==
    calls[c].handler.pc \in {"click", "focus", "type", "evaluate", "waitForFunction"}

(***************************************************************************)
(* C17: provided the page settles every call made of it, a call of         *)
(* runAction, once started, resolves or rejects in the end; it does so     *)
(* once, its outcome never changing afterwards; and it is never settled    *)
(* while a page call of its run function is pending.                       *)
(***************************************************************************)
C17_SettledInv ==
    \A c \in Calls :
       /\ Settled(c) => ~PagePending(c)
       /\ calls[c].pc = "resolved" =>
             calls[c].value = Undefined /\ calls[c].error = NoError
       /\ calls[c].pc = "rejected" =>
             calls[c].value = Pending /\ calls[c].error # NoError

C17_SettledStep ==
    \A c \in Calls : Settled(c) => calls'[c] = calls[c] /\ EventsOf(c)' = EventsOf(c)

C17_OneOutcome ==
    /\ \A c \in Calls : (calls[c].pc # "idle") ~> Settled(c)
    /\ []C17_SettledInv
    /\ [][C17_SettledStep]_vars

\* "set .a to #x" has resolved after its two page calls
C17_Witness ==
    /\ calls[1].actionString = Words(<<"set", ".a", "to", "#x">>)
    /\ calls[1].pc = "resolved"
    /\ ~PagePending(1)
    /\ Len(PageCalls) = 2

\* the run function invoked for call c, and the captures given to it
InvokedFor(c) == SelectSeq(EventsOf(c), LAMBDA e : e.kind = "run")

(***************************************************************************)
(* C18: runAction and isValidAction leave the registry as it is: only the  *)
(* host replacing it changes it.  A call that is awaiting its run function *)
(* keeps the action and the captures it selected when it started, whatever *)
(* the host makes of the registry meanwhile, and settles with them.        *)
(***************************************************************************)
C18_RegistryStep ==
    /\ actions' # actions =>
          /\ calls' = calls
          /\ trace' = trace
          /\ valid' = valid
    /\ \A c \in Calls :
          calls[c].pc # "idle" =>
             /\ calls'[c].action = calls[c].action
             /\ calls'[c].matches = calls[c].matches
             /\ calls'[c].actionString = calls[c].actionString
             /\ InvokedFor(c)' = InvokedFor(c)

C18_RegistryInv ==
    \A c \in Calls :
       calls[c].action # NoAction =>
          /\ Len(InvokedFor(c)) = 1
          /\ InvokedFor(c)[1].run = calls[c].action.run
          /\ InvokedFor(c)[1].args.matches = calls[c].matches
          /\ calls[c].matches = MatchFrom(calls[c].action.match, calls[c].actionString, 1)

C18_Registry == [][C18_RegistryStep]_vars /\ []C18_RegistryInv

\* the call of "click foo" awaits page.click, and the host has installed a
\* registry that holds no click-element
C18_Witness ==
    /\ calls[1].actionString = Words(<<"click", "foo">>)
    /\ calls[1].pc = "awaiting"
    /\ calls[1].handler.pc = "click"
    /\ calls[1].action = ClickElement
    /\ actions = TestActions

(***************************************************************************)
(* Overlapping calls: the host issues up to MaxCalls calls of runAction on *)
(* one page, none awaited before the next is issued.                       *)
(***************************************************************************)
NextConcurrent == CallSteps(Calls, ConcurrentCommands)

SpecConcurrent == Init /\ [][NextConcurrent]_vars

\* the page calls the run function of call c makes when nothing fails, in
\* the order of its statements
PageProgramOf(c) ==
    LET h == calls[c].handler
    IN  CASE calls[c].action.run = "click-element" ->
               <<PageCall(c, "click", <<h.selector>>)>>
          [] calls[c].action.run = "set-field-value" ->
               <<PageCall(c, "focus", <<h.selector>>),
                 PageCall(c, "type", <<h.value>>)>>
          [] calls[c].action.run = "check-field" ->
               <<PageCall(c, "evaluate", <<h.selector, h.checked>>)>>
          [] calls[c].action.run = "wait-for-url" ->
               <<PageCall(c, "waitForFunction",
                          <<<<>>, h.property, h.expectedValue, h.negated>>)>>
          [] OTHER -> <<>>

\* what call c logs, invokes and calls when nothing fails: the start
\* message, the run function, its page calls, the completion message
ProgramOf(c) ==
    IF calls[c].action = NoAction THEN <<>>
    ELSE <<[kind |-> "log", log |-> c,
            message |-> <<"Running action: ", calls[c].actionString>>],
           [kind |-> "run", call |-> c, run |-> calls[c].action.run,
            args |-> [browser |-> Browser, page |-> Page, options |-> Options(c),
                      matches |-> calls[c].matches]]>>
           \o PageProgramOf(c)
           \o <<[kind |-> "log", log |-> c,
                 message |-> <<"  \\u2714\\uFE0E action complete">>]>>

IsPrefix(p, q) == Len(p) <= Len(q) /\ p = SubSeq(q, 1, Len(p))

(***************************************************************************)
(* C19: however overlapping calls of runAction interleave on one page,     *)
(* each keeps its own program order: its start message, then the page      *)
(* calls of its run function in sequence, then its completion message;     *)
(* and a step of one call, its failure included, changes neither the       *)
(* outcome nor the error of another.                                       *)
(***************************************************************************)
C19_ProgramOrderInv ==
    \A c \in Calls :
       /\ IsPrefix(EventsOf(c), ProgramOf(c))
       /\ calls[c].pc = "resolved" => EventsOf(c) = ProgramOf(c)
       /\ calls[c].pc = "rejected" =>
             /\ calls[c].action # NoAction => EventsOf(c) # ProgramOf(c)
             /\ calls[c].error.call = c

C19_IsolationStep ==
    \A c \in Calls :
       calls'[c] # calls[c] =>
          \A d \in Calls \ {c} :
             /\ calls'[d] = calls[d]
             /\ EventsOf(d)' = EventsOf(d)

C19_Isolation == []C19_ProgramOrderInv /\ [][C19_IsolationStep]_vars

\* call 1 has failed at page.click between the page calls of call 2, which
\* has resolved
C19_Witness ==
    /\ calls[1].actionString = Words(<<"click", ".a">>)
    /\ calls[1].pc = "rejected"
    /\ calls[2].actionString = Words(<<"set", ".a", "to", "#x">>)
    /\ calls[2].pc = "resolved"
    /\ Len(PageCalls) = 3
    /\ PageCalls[1].method = "focus"
    /\ PageCalls[2].method = "click"
    /\ PageCalls[3].method = "type"

(***************************************************************************)
(* C20: nothing serializes overlapping calls: a call can start, and its    *)
(* page.focus and page.type can resolve, whatever another call is waiting  *)
(* for; and page.type is given the value only, so it types into whatever   *)
(* is focused.  Hence two overlapping set-field calls can reach the page   *)
(* as focus(s1), focus(s2), type(v1), type(v2), and both resolve.          *)
(***************************************************************************)
C20_NoSerialization ==
    /\ \A d \in Calls :
          /\ calls[d].pc = "idle" =>
                \A s \in ConcurrentCommands : ENABLED RunAction(d, s)
          /\ (calls[d].pc = "awaiting" /\ calls[d].handler.pc \in {"focus", "type"}) =>
                ENABLED PageResolves(d)
          /\ (calls[d].pc = "awaiting" /\ calls[d].handler.pc = "resolved") =>
                ENABLED RunActionResumes(d)
    /\ \A k \in DOMAIN PageCalls :
          PageCalls[k].method = "type" =>
             PageCalls[k].args = <<calls[PageCalls[k].call].handler.value>>

\* the two set-field calls have resolved, the value of the first having been
\* typed after the selector of the second was focused
C20_Witness ==
    /\ PageCalls = <<PageCall(1, "focus", <<Chars(".a")>>),
                     PageCall(2, "focus", <<Chars("#x")>>),
                     PageCall(1, "type", <<Chars("#x")>>),
                     PageCall(2, "type", <<Chars("/p")>>)>>
    /\ calls[1].actionString = Words(<<"set", ".a", "to", "#x">>)
    /\ calls[2].actionString = Words(<<"set", "#x", "to", "/p">>)
    /\ calls[1].pc = "resolved"
    /\ calls[2].pc = "resolved"


(***************************************************************************)
(* Vocabulary of C21: the registry in the opposite order, and the action   *)
(* find gives.                                                             *)
(***************************************************************************)
RECURSIVE Reversed(_)
Reversed(acts) ==
    IF acts = <<>> THEN <<>> ELSE Reversed(Tail(acts)) \o <<Head(acts)>>

\* the action of the registry acts that a scan of it has found (NoAction:
\* none)
ChosenOf(acts, scan) == IF scan.found = 0 THEN NoAction ELSE acts[scan.found]

\* the action find gives for s in the registry acts
Chosen(acts, s) == ChosenOf(acts, Find(acts, s))

(***************************************************************************)
(* C21: a command is matched by at most one of the patterns of             *)
(* click-element, set-field-value, check-field and wait-for-url, so that   *)
(* the action a call with the default registry runs does not depend on the *)
(* order of the four actions: find gives it in the registry's order and in *)
(* the opposite order (of any two actions, each comes first in one of the  *)
(* two, and find gives the first that matches).                            *)
(***************************************************************************)
C21_ExclusiveStep ==
    \A c \in Calls :
       Started(c) =>
          /\ Cardinality(Matching(DefaultActions, calls'[c].actionString)) <= 1
          /\ \A o \in {DefaultActions, Reversed(DefaultActions)} :
                \E a \in {Chosen(o, calls'[c].actionString)} :
                   /\ a = calls'[c].action
                   /\ \A k \in DOMAIN NewEvents :
                         NewEvents[k].kind = "run" => NewEvents[k].run = a.run

C21_Exclusive == [][C21_ExclusiveStep]_vars

\* "set check .a to x" runs set-field-value, which focuses "check .a"
C21_Witness ==
    /\ calls[1].actionString = Words(<<"set", "check", ".a", "to", "x">>)
    /\ calls[1].action = SetFieldValue
    /\ Len(RunCalls) = 1
    /\ RunCalls[1].run = "set-field-value"
    /\ PageCalls = <<PageCall(1, "focus", <<Words(<<"check", ".a">>)>>)>>


(***************************************************************************)
(* Vocabulary of C22: the prefixes of the set command, the places of the   *)
(* command where " to " stands (in either case, as the pattern carries the *)
(* i flag), and a split of the command at one of them.                     *)
(***************************************************************************)
SetPrefixes == {Words(<<"set", "">>), Words(<<"set", "field", "">>)}

ToPlaces(s) == {p \in 1..Len(s) : LitAt(ToWord, s, p, "i")}

\* the places with at least one character after the " to "
ToPlacesBeforeValue(s) == {p \in ToPlaces(s) : p + Len(ToWord) <= Len(s)}

LastOf(ps) == CHOOSE p \in ps : \A q \in ps : q <= p

\* s is the prefix, the selector, the " to " at place p and the value, the
\* selector and the value not empty
SplitAt(s, prefix, p, selector, value) ==
    /\ LitAt(prefix, s, 1, "i")
    /\ selector = SubSeq(s, Len(prefix) + 1, p - 1)
    /\ value = After(s, p + Len(ToWord) - 1)
    /\ selector # <<>>
    /\ value # <<>>

\* call c, running set-field-value, has split its command at one of places:
\* the selector is what it gave or gives page.focus, the value what it gave
\* or gives page.type
SetSplitsAmong(c, places) ==
    /\ places # {}
    /\ \E prefix \in SetPrefixes :
          SplitAt(calls[c].actionString, prefix, LastOf(places),
                  calls[c].handler.selector, calls[c].handler.value)
    /\ \A k \in DOMAIN PageCallsOf(c, "focus") :
          PageCallsOf(c, "focus")[k].args = <<calls[c].handler.selector>>
    /\ \A k \in DOMAIN PageCallsOf(c, "type") :
          PageCallsOf(c, "type")[k].args = <<calls[c].handler.value>>

(***************************************************************************)
(* C22 as stated: for every command the set pattern accepts, the selector  *)
(* given to page.focus is all that stands between the prefix "set " or     *)
(* "set field " and the last " to " of the command, and the value given to *)
(* page.type is all that follows that last " to "; neither is empty.       *)
(* It fails for a command that ends with " to ": nothing follows the last  *)
(* " to ", and the pattern splits at the one before it.                    *)
(***************************************************************************)
C22_SplitAtLastTo ==
    \A c \in Calls :
       calls[c].action = SetFieldValue =>
          SetSplitsAmong(c, ToPlaces(calls[c].actionString))

(***************************************************************************)
(* C22 as amended: for every command the set pattern accepts, the split is *)
(* at the last " to " (in either case) that has at least one character     *)
(* after it: the selector given to page.focus is all that stands between   *)
(* the prefix and that " to ", the value given to page.type all that       *)
(* follows it, and neither is empty.  page.focus is called once with that  *)
(* selector, and page.type at most once, after it.                         *)
(***************************************************************************)
C22_SplitAtLastToBeforeValue ==
    \A c \in Calls :
       calls[c].action = SetFieldValue =>
          /\ SetSplitsAmong(c, ToPlacesBeforeValue(calls[c].actionString))
          /\ Len(PageCallsOf(c, "focus")) = 1
          /\ Len(PageCallsOf(c, "type")) <= 1
          /\ AllPageCallsOf(c) =
                PageCallsOf(c, "focus") \o PageCallsOf(c, "type")

\* "set .a to to to" has resolved: ".a to" was focused and "to" typed
C22_Witness ==
    /\ calls[1].actionString = Words(<<"set", ".a", "to", "to", "to">>)
    /\ calls[1].pc = "resolved"
    /\ PageCalls = <<PageCall(1, "focus", <<Words(<<".a", "to">>)>>),
                     PageCall(1, "type", <<Chars("to")>>)>>

\* "set .a to x to " has resolved: ".a" was focused and "x to " typed
C22_WitnessTrailing ==
    /\ calls[1].actionString = Words(<<"set", ".a", "to", "x", "to", "">>)
    /\ calls[1].pc = "resolved"
    /\ PageCalls = <<PageCall(1, "focus", <<Chars(".a")>>),
                     PageCall(1, "type", <<Words(<<"x", "to", "">>)>>)>>

=============================================================================
